---- MODULE Spec2Model ----
(***************************************************************************)
(* A model of src/src/lib.rs (unidiff): PatchSet::parse, the hunk builder  *)
(* PatchedFile::parse_hunk, the Display implementations and the derived    *)
(* views of PatchedFile.                                                   *)
(*                                                                         *)
(* Text is modelled as a sequence of one-character strings, so that the    *)
(* regular expressions, starts_with / ends_with, slicing, formatting and   *)
(* str::lines are computed on characters as the code computes them.        *)
(* Option<T> is modelled as a sequence: <<>> is None, <<v>> is Some(v).    *)
(***************************************************************************)
EXTENDS Integers, Sequences, FiniteSets, TLC

(***************************************************************************)
(* Bounds of the model.                                                    *)
(***************************************************************************)
\* longest input drawn from DriverVocab
MaxLines == 5
\* longest hunk body drawn from BodyVocab after a fixed file header pair
MaxBody == 3
\* most hunks of a PatchedFile built directly (with_hunks / hunks_mut)
MaxHunks == 3
\* most lines appended to the hunks of a PatchedFile by Hunk::append calls
MaxAppends == 3

(***************************************************************************)
(* Text helpers.                                                           *)
(***************************************************************************)
None == <<>>

Some(v) == <<v>>

\* str::starts_with
StartsWith(s, p) ==
    /\ Len(s) >= Len(p)
    /\ \A i \in 1..Len(p) : s[i] = p[i]

\* str::ends_with
EndsWith(s, p) ==
    /\ Len(s) >= Len(p)
    /\ \A i \in 1..Len(p) : s[Len(s) - Len(p) + i] = p[i]

\* &s[n..]
SliceFrom(s, n) == SubSeq(s, n + 1, Len(s))

\* the text p stands in s at (1-based) position i
HasAt(s, i, p) ==
    /\ i >= 1
    /\ i + Len(p) - 1 <= Len(s)
    /\ \A k \in 1..Len(p) : s[i + k - 1] = p[k]

RECURSIVE RunLen(_, _, _)
\* the length of the longest run of characters of cls in s from position i
\* on (a greedy [cls]+); RunLenNot is the same for [^cls]+
RunLen(s, i, cls) ==
    IF i <= Len(s) /\ s[i] \in cls THEN 1 + RunLen(s, i + 1, cls) ELSE 0

RECURSIVE RunLenNot(_, _, _)
RunLenNot(s, i, cls) ==
    IF i <= Len(s) /\ s[i] \notin cls THEN 1 + RunLenNot(s, i + 1, cls) ELSE 0

RECURSIVE Join(_, _)
\* Vec<String>::join(sep)
Join(ss, sep) ==
    IF Len(ss) = 0 THEN <<>>
    ELSE IF Len(ss) = 1 THEN ss[1]
    ELSE ss[1] \o sep \o Join(Tail(ss), sep)

RECURSIVE SplitLines(_, _)
\* the pieces of text between "\n" characters, cur being the piece read so
\* far; a final piece is produced only when it is not empty
SplitLines(text, cur) ==
    IF Len(text) = 0 THEN (IF Len(cur) = 0 THEN <<>> ELSE <<cur>>)
    ELSE LET n == RunLenNot(text, 1, {"\n"})
             piece == cur \o SubSeq(text, 1, n)
         IN  IF n = Len(text) THEN <<piece>>
             ELSE <<piece>> \o SplitLines(SubSeq(text, n + 2, Len(text)), <<>>)

\* str::lines (the model's alphabet has no "\r")
Lines(text) == SplitLines(text, <<>>)

Digits == {"0", "1", "2", "3", "4", "5", "6", "7", "8", "9"}

DigitVal(c) ==
    CASE c = "0" -> 0 [] c = "1" -> 1 [] c = "2" -> 2 [] c = "3" -> 3
      [] c = "4" -> 4 [] c = "5" -> 5 [] c = "6" -> 6 [] c = "7" -> 7
      [] c = "8" -> 8 [] c = "9" -> 9

RECURSIVE ParseUsize(_)
\* str::parse::<usize> of a run of ASCII digits (the numerals of the model
\* are far below usize::MAX)
ParseUsize(ds) ==
    IF Len(ds) = 0 THEN 0
    ELSE 10 * ParseUsize(SubSeq(ds, 1, Len(ds) - 1)) + DigitVal(ds[Len(ds)])

DigitChars == <<"0", "1", "2", "3", "4", "5", "6", "7", "8", "9">>

RECURSIVE FormatUsize(_)
\* format!("{}", n) of a usize
FormatUsize(n) ==
    IF n < 10 THEN <<DigitChars[n + 1]>>
    ELSE FormatUsize(n \div 10) \o FormatUsize(n % 10)

(***************************************************************************)
(* The regular expressions (lib.rs:39-42) and the line type constants.     *)
(***************************************************************************)
LINE_TYPE_ADDED == <<"+">>

LINE_TYPE_REMOVED == <<"-">>

LINE_TYPE_CONTEXT == <<" ">>

LINE_TYPE_EMPTY == <<"\n">>

\* "\\ No newline at end of file" (lib.rs:432)
NoNewlineMarker ==
    <<"\\", " ", "N", "o", " ", "n", "e", "w", "l", "i", "n", "e", " ",
      "a", "t", " ", "e", "n", "d", " ", "o", "f", " ", "f", "i", "l", "e">>

\* ^<prefix>(?P<filename>[^\t\n]+)(?:\t(?P<timestamp>[^\n]+))?
FilenameCaptures(line, prefix) ==
    LET p == Len(prefix) + 1
        n == RunLenNot(line, p, {"\t", "\n"})
        q == p + n
        m == IF q <= Len(line) /\ line[q] = "\t"
             THEN RunLenNot(line, q + 1, {"\n"}) ELSE 0
    IN  [matched   |-> StartsWith(line, prefix) /\ n > 0,
         filename  |-> Some(SubSeq(line, p, q - 1)),
         timestamp |-> IF m > 0 THEN Some(SubSeq(line, q + 1, q + m)) ELSE None]

RE_SOURCE_FILENAME(line) == FilenameCaptures(line, <<"-", "-", "-", " ">>)

RE_TARGET_FILENAME(line) == FilenameCaptures(line, <<"+", "+", "+", " ">>)

\* ^@@ -(\d+)(?:,(\d+))? \+(\d+)(?:,(\d+))? @@[ ]?(.*)
RE_HUNK_HEADER(line) ==
    LET p1 == 5
        n1 == RunLen(line, p1, Digits)
        p2 == p1 + n1
        n2 == IF HasAt(line, p2, <<",">>) THEN RunLen(line, p2 + 1, Digits) ELSE 0
        p3 == IF n2 > 0 THEN p2 + 1 + n2 ELSE p2
        p4 == p3 + 2
        n3 == RunLen(line, p4, Digits)
        p5 == p4 + n3
        n4 == IF HasAt(line, p5, <<",">>) THEN RunLen(line, p5 + 1, Digits) ELSE 0
        p6 == IF n4 > 0 THEN p5 + 1 + n4 ELSE p5
        p7 == p6 + 3
        p8 == IF HasAt(line, p7, <<" ">>) THEN p7 + 1 ELSE p7
    IN  [matched |-> /\ StartsWith(line, <<"@", "@", " ", "-">>)
                     /\ n1 > 0
                     /\ HasAt(line, p3, <<" ", "+">>)
                     /\ n3 > 0
                     /\ HasAt(line, p6, <<" ", "@", "@">>),
         source_start   |-> Some(SubSeq(line, p1, p2 - 1)),
         source_length  |-> IF n2 > 0 THEN Some(SubSeq(line, p2 + 1, p2 + n2)) ELSE None,
         target_start   |-> Some(SubSeq(line, p4, p5 - 1)),
         target_length  |-> IF n4 > 0 THEN Some(SubSeq(line, p5 + 1, p5 + n4)) ELSE None,
         section_header |-> SubSeq(line, p8, Len(line))]

\* ^(?P<line_type>[- \n\+\\]?)(?P<value>.*)   (matches every line)
RE_HUNK_BODY_LINE(line) ==
    LET typed == Len(line) > 0 /\ line[1] \in {"-", " ", "\n", "+", "\\"}
    IN  [line_type |-> IF typed THEN <<line[1]>> ELSE <<>>,
         value     |-> IF typed THEN Tail(line) ELSE line]

\* MapOr that takes "1" for a capture that is absent
MapOr_one(default, opt) == IF opt = None THEN <<"1">> ELSE opt[1]

\* Option<Match>::map_or("0", |s| s.as_str())
MapOr(default, opt) == IF opt = None THEN default ELSE opt[1]

(***************************************************************************)
(* The lines the inputs of the model are made of.                          *)
(***************************************************************************)
\* "--- a/x"
L_source ==
    <<"-", "-", "-", " ", "a", "/", "x">>

\* "+++ b/x"
L_target ==
    <<"+", "+", "+", " ", "b", "/", "x">>

\* "@@ -1,1 +1,1 @@"
L_hunk ==
    <<"@", "@", " ", "-", "1", ",", "1", " ", "+", "1", ",", "1", " ", "@",
      "@">>

\* "@@ -0,0 +1,2 @@"
L_hunk_added ==
    <<"@", "@", " ", "-", "0", ",", "0", " ", "+", "1", ",", "2", " ", "@",
      "@">>

\* "@@ -1,2 +0,0 @@ s"
L_hunk_removed ==
    <<"@", "@", " ", "-", "1", ",", "2", " ", "+", "0", ",", "0", " ", "@",
      "@", " ", "s">>

\* "@@ -3 +3 @@"
L_hunk_nolen ==
    <<"@", "@", " ", "-", "3", " ", "+", "3", " ", "@", "@">>

\* "@@ -1,2 +1 @@"
L_hunk_target_nolen ==
    <<"@", "@", " ", "-", "1", ",", "2", " ", "+", "1", " ", "@", "@">>

\* "@@ -0,0 +0,0 @@"
L_hunk_zero ==
    <<"@", "@", " ", "-", "0", ",", "0", " ", "+", "0", ",", "0", " ", "@",
      "@">>

\* "+c"
L_added ==
    <<"+", "c">>

\* "-c"
L_removed ==
    <<"-", "c">>

\* " c"
L_context ==
    <<" ", "c">>

\* ""
L_blank ==
    <<>>

\* "x"
L_text ==
    <<"x">>

\* "\ No newline at end of file"
L_marker ==
    <<"\\", " ", "N", "o", " ", "n", "e", "w", "l", "i", "n", "e", " ", "a",
      "t", " ", "e", "n", "d", " ", "o", "f", " ", "f", "i", "l", "e">>

\* "+\ No newline at end of file"
L_added_marker ==
    <<"+", "\\", " ", "N", "o", " ", "n", "e", "w", "l", "i", "n", "e", " ",
      "a", "t", " ", "e", "n", "d", " ", "o", "f", " ", "f", "i", "l", "e">>

\* "-\ No newline at end of file"
L_removed_marker ==
    <<"-", "\\", " ", "N", "o", " ", "n", "e", "w", "l", "i", "n", "e", " ",
      "a", "t", " ", "e", "n", "d", " ", "o", "f", " ", "f", "i", "l", "e">>

\* " \ No newline at end of file"
L_context_marker ==
    <<" ", "\\", " ", "N", "o", " ", "n", "e", "w", "l", "i", "n", "e", " ",
      "a", "t", " ", "e", "n", "d", " ", "o", "f", " ", "f", "i", "l", "e">>

\* "x\ No newline at end of file"
L_text_marker ==
    <<"x", "\\", " ", "N", "o", " ", "n", "e", "w", "l", "i", "n", "e", " ",
      "a", "t", " ", "e", "n", "d", " ", "o", "f", " ", "f", "i", "l", "e">>

\* "\x"
L_backslash ==
    <<"\\", "x">>

\* "--- a/x<TAB>t1"
L_source_ts ==
    <<"-", "-", "-", " ", "a", "/", "x", "\t", "t", "1">>

\* "--- /dev/null"
L_source_null ==
    <<"-", "-", "-", " ", "/", "d", "e", "v", "/", "n", "u", "l", "l">>

\* "+++ /dev/null"
L_target_null ==
    <<"+", "+", "+", " ", "/", "d", "e", "v", "/", "n", "u", "l", "l">>

\* "diff --git a/added_file b/added_file"
Doc1 ==
    <<"d", "i", "f", "f", " ", "-", "-", "g", "i", "t", " ", "a", "/", "a",
      "d", "d", "e", "d", "_", "f", "i", "l", "e", " ", "b", "/", "a", "d",
      "d", "e", "d", "_", "f", "i", "l", "e">>

\* "new file mode 100644"
Doc2 ==
    <<"n", "e", "w", " ", "f", "i", "l", "e", " ", "m", "o", "d", "e", " ",
      "1", "0", "0", "6", "4", "4">>

\* "index 0000000..9b710f3"
Doc3 ==
    <<"i", "n", "d", "e", "x", " ", "0", "0", "0", "0", "0", "0", "0", ".",
      ".", "9", "b", "7", "1", "0", "f", "3">>

\* "--- /dev/null"
Doc4 ==
    <<"-", "-", "-", " ", "/", "d", "e", "v", "/", "n", "u", "l", "l">>

\* "+++ b/added_file"
Doc5 ==
    <<"+", "+", "+", " ", "b", "/", "a", "d", "d", "e", "d", "_", "f", "i",
      "l", "e">>

\* "@@ -0,0 +1,4 @@"
Doc6 ==
    <<"@", "@", " ", "-", "0", ",", "0", " ", "+", "1", ",", "4", " ", "@",
      "@">>

\* "+This was missing!"
Doc7 ==
    <<"+", "T", "h", "i", "s", " ", "w", "a", "s", " ", "m", "i", "s", "s",
      "i", "n", "g", "!">>

\* "+Adding it now."
Doc8 ==
    <<"+", "A", "d", "d", "i", "n", "g", " ", "i", "t", " ", "n", "o", "w",
      ".">>

\* "+"
Doc9 ==
    <<"+">>

\* "+Only for testing purposes."
Doc10 ==
    <<"+", "O", "n", "l", "y", " ", "f", "o", "r", " ", "t", "e", "s", "t",
      "i", "n", "g", " ", "p", "u", "r", "p", "o", "s", "e", "s", ".">>

\* "@@ -1,3 +1,4 @@"
Ex_hunk ==
    <<"@", "@", " ", "-", "1", ",", "3", " ", "+", "1", ",", "4", " ", "@",
      "@">>

\* " a"
Ex_a ==
    <<" ", "a">>

\* "-b"
Ex_b ==
    <<"-", "b">>

\* "+c"
Ex_c ==
    <<"+", "c">>

\* "+d"
Ex_d ==
    <<"+", "d">>

\* " e"
Ex_e ==
    <<" ", "e">>

(***************************************************************************)
(* The file names PatchedFile::path is applied to.                         *)
(***************************************************************************)
\* "a/x"
N_a_x ==
    <<"a", "/", "x">>

\* "b/x"
N_b_x ==
    <<"b", "/", "x">>

\* "/dev/null"
N_dev_null ==
    <<"/", "d", "e", "v", "/", "n", "u", "l", "l">>

\* "x"
N_x ==
    <<"x">>

\* "a/"
N_a ==
    <<"a", "/">>

\* "b/"
N_b ==
    <<"b", "/">>

\* "a/b/x"
N_ab ==
    <<"a", "/", "b", "/", "x">>

\* "b/a/x"
N_ba ==
    <<"b", "/", "a", "/", "x">>

\* "/dev/null/x"
N_dev_null_x ==
    <<"/", "d", "e", "v", "/", "n", "u", "l", "l", "/", "x">>

\* "ax"
N_ax ==
    <<"a", "x">>

(***************************************************************************)
(* The data model (lib.rs:88-120, 159-175, 303-313).                       *)
(***************************************************************************)
LineType == {"Added", "Removed", "Context", "Empty"}

\* Line::is_added
is_added(l) == l.line_type = "Added"

\* Line::is_removed
is_removed(l) == l.line_type = "Removed"

\* Line::is_context
is_context(l) == l.line_type = "Context"

\* Hunk::new
Hunk_new(source_start, source_length, target_start, target_length, section_header) ==
    [added          |-> 0,
     removed        |-> 0,
     source_start   |-> source_start,
     source_length  |-> source_length,
     target_start   |-> target_start,
     target_length  |-> target_length,
     section_header |-> section_header,
     lines          |-> <<>>]

\* Line::new
Line_new(value, line_type) ==
    [source_line_no |-> Some(0),
     target_line_no |-> Some(0),
     diff_line_no   |-> 0,
     line_type      |-> line_type,
     value          |-> value]

\* Hunk_append that counts every line that is not Added as removed
Hunk_append_else_removed(h, l) ==
    [h EXCEPT !.added   = IF is_added(l) THEN @ + 1 ELSE @,
              !.removed = IF ~is_added(l) THEN @ + 1 ELSE @,
              !.lines   = Append(@, l)]

\* Hunk::append
Hunk_append(h, l) ==
    [h EXCEPT !.added   = IF is_added(l) THEN @ + 1 ELSE @,
              !.removed = IF ~is_added(l) /\ is_removed(l) THEN @ + 1 ELSE @,
              !.lines   = Append(@, l)]

\* PatchedFile::with_hunks
PatchedFile_with_hunks(source_file, target_file, hunks) ==
    [source_file      |-> source_file,
     target_file      |-> target_file,
     source_timestamp |-> None,
     target_timestamp |-> None,
     hunks            |-> hunks]

RECURSIVE added(_)
\* PatchedFile::added: hunks.iter().map(|h| h.added).fold(0, |acc, x| acc + x)
added(f) ==
    IF Len(f.hunks) = 0 THEN 0
    ELSE f.hunks[1].added + added([f EXCEPT !.hunks = Tail(@)])

RECURSIVE removed(_)
\* PatchedFile::removed
removed(f) ==
    IF Len(f.hunks) = 0 THEN 0
    ELSE f.hunks[1].removed + removed([f EXCEPT !.hunks = Tail(@)])

(***************************************************************************)
(* The derived views of a PatchedFile (lib.rs:342-382) and of a PatchSet   *)
(* (lib.rs:568-593).                                                       *)
(***************************************************************************)
\* path with a second rule that takes any target starting with "/dev/null"
path_dev_null_prefix(f) ==
    IF StartsWith(f.source_file, <<"a", "/">>) /\ StartsWith(f.target_file, <<"b", "/">>)
    THEN SliceFrom(f.source_file, 2)
    ELSE IF StartsWith(f.source_file, <<"a", "/">>) /\ StartsWith(f.target_file, N_dev_null)
    THEN SliceFrom(f.source_file, 2)
    ELSE IF StartsWith(f.target_file, <<"b", "/">>) /\ N_dev_null = f.source_file
    THEN SliceFrom(f.target_file, 2)
    ELSE f.source_file

\* PatchedFile::path
path(f) ==
    IF StartsWith(f.source_file, <<"a", "/">>) /\ StartsWith(f.target_file, <<"b", "/">>)
    THEN SliceFrom(f.source_file, 2)
    ELSE IF StartsWith(f.source_file, <<"a", "/">>) /\ N_dev_null = f.target_file
    THEN SliceFrom(f.source_file, 2)
    ELSE IF StartsWith(f.target_file, <<"b", "/">>) /\ N_dev_null = f.source_file
    THEN SliceFrom(f.target_file, 2)
    ELSE f.source_file

\* is_added_file that looks at the first hunk of any number of hunks
is_added_file_first_hunk(f) ==
    /\ Len(f.hunks) >= 1
    /\ f.hunks[1].source_start = 0
    /\ f.hunks[1].source_length = 0

\* PatchedFile::is_added_file
is_added_file(f) ==
    /\ Len(f.hunks) = 1
    /\ f.hunks[1].source_start = 0
    /\ f.hunks[1].source_length = 0

\* PatchedFile::is_removed_file
is_removed_file(f) ==
    /\ Len(f.hunks) = 1
    /\ f.hunks[1].target_start = 0
    /\ f.hunks[1].target_length = 0

\* is_modified_file that looks at is_added_file alone
is_modified_file_not_added(f) == ~is_added_file(f)

\* PatchedFile::is_modified_file
is_modified_file(f) == ~is_added_file(f) /\ ~is_removed_file(f)

\* PatchSet::added_files
added_files(fs) == SelectSeq(fs, is_added_file)

\* PatchSet::removed_files
removed_files(fs) == SelectSeq(fs, is_removed_file)

\* PatchSet::modified_files
modified_files(fs) == SelectSeq(fs, is_modified_file)

(***************************************************************************)
(* PatchedFile::parse_hunk, the parts of one call (lib.rs:384-471).        *)
(***************************************************************************)
\* the header's captures parsed into a Hunk without lines (lib.rs:385-418)
HunkOfHeader(header) ==
    LET header_info == RE_HUNK_HEADER(header)
    IN  Hunk_new(ParseUsize(MapOr(<<"0">>, header_info.source_start)),
                 ParseUsize(MapOr(<<"0">>, header_info.source_length)),
                 ParseUsize(MapOr(<<"0">>, header_info.target_start)),
                 ParseUsize(MapOr(<<"0">>, header_info.target_length)),
                 header_info.section_header)

expected_source_end(h) == h.source_start + h.source_length

expected_target_end(h) == h.target_start + h.target_length

\* ClassifyLine with the ends_with arm tried before the marker characters
ClassifyLine_marker_first(line) ==
    LET line_type_str == RE_HUNK_BODY_LINE(line).line_type
    IN  IF EndsWith(line, NoNewlineMarker) THEN "Empty"
        ELSE IF line_type_str = LINE_TYPE_ADDED THEN "Added"
        ELSE IF line_type_str = LINE_TYPE_REMOVED THEN "Removed"
        ELSE IF line_type_str = LINE_TYPE_CONTEXT THEN "Context"
        ELSE IF line_type_str = LINE_TYPE_EMPTY THEN "Context"
        ELSE IF line_type_str = <<>> THEN "Context"
        ELSE "ExpectLine"

\* the match on line_type_str (lib.rs:426-434); "ExpectLine" is the error arm
ClassifyLine(line) ==
    LET line_type_str == RE_HUNK_BODY_LINE(line).line_type
    IN  IF line_type_str = LINE_TYPE_ADDED THEN "Added"
        ELSE IF line_type_str = LINE_TYPE_REMOVED THEN "Removed"
        ELSE IF line_type_str = LINE_TYPE_CONTEXT THEN "Context"
        ELSE IF line_type_str = LINE_TYPE_EMPTY THEN "Context"
        ELSE IF line_type_str = <<>> THEN "Context"
        ELSE IF EndsWith(line, NoNewlineMarker) THEN "Empty"
        ELSE "ExpectLine"

\* NumberLine with a Context arm that leaves the source cursor where it is
NumberLine_context_target_only(line_type, value, diff_line_no, s, t) ==
    LET original_line == [source_line_no |-> None,
                          target_line_no |-> None,
                          diff_line_no   |-> diff_line_no + 1,
                          line_type      |-> line_type,
                          value          |-> value]
    IN  CASE line_type = "Added" ->
               [line |-> [original_line EXCEPT !.target_line_no = Some(t)],
                source_line_no |-> s, target_line_no |-> t + 1]
          [] line_type = "Removed" ->
               [line |-> [original_line EXCEPT !.source_line_no = Some(s)],
                source_line_no |-> s + 1, target_line_no |-> t]
          [] line_type = "Context" ->
               [line |-> [original_line EXCEPT !.target_line_no = Some(t),
                                               !.source_line_no = Some(s)],
                source_line_no |-> s, target_line_no |-> t + 1]
          [] OTHER ->
               [line |-> original_line, source_line_no |-> s, target_line_no |-> t]

\* NumberLine with a last arm that gives the marker line the numbers of the
\* cursors
NumberLine_marker_numbered(line_type, value, diff_line_no, s, t) ==
    LET original_line == [source_line_no |-> None,
                          target_line_no |-> None,
                          diff_line_no   |-> diff_line_no + 1,
                          line_type      |-> line_type,
                          value          |-> value]
    IN  CASE line_type = "Added" ->
               [line |-> [original_line EXCEPT !.target_line_no = Some(t)],
                source_line_no |-> s, target_line_no |-> t + 1]
          [] line_type = "Removed" ->
               [line |-> [original_line EXCEPT !.source_line_no = Some(s)],
                source_line_no |-> s + 1, target_line_no |-> t]
          [] line_type = "Context" ->
               [line |-> [original_line EXCEPT !.target_line_no = Some(t),
                                               !.source_line_no = Some(s)],
                source_line_no |-> s + 1, target_line_no |-> t + 1]
          [] OTHER ->
               [line |-> [original_line EXCEPT !.target_line_no = Some(t),
                                               !.source_line_no = Some(s)],
                source_line_no |-> s, target_line_no |-> t]

\* the Line built for a body line and the cursors after it (lib.rs:435-459)
NumberLine(line_type, value, diff_line_no, s, t) ==
    LET original_line == [source_line_no |-> None,
                          target_line_no |-> None,
                          diff_line_no   |-> diff_line_no + 1,
                          line_type      |-> line_type,
                          value          |-> value]
    IN  CASE line_type = "Added" ->
               [line |-> [original_line EXCEPT !.target_line_no = Some(t)],
                source_line_no |-> s, target_line_no |-> t + 1]
          [] line_type = "Removed" ->
               [line |-> [original_line EXCEPT !.source_line_no = Some(s)],
                source_line_no |-> s + 1, target_line_no |-> t]
          [] line_type = "Context" ->
               [line |-> [original_line EXCEPT !.target_line_no = Some(t),
                                               !.source_line_no = Some(s)],
                source_line_no |-> s + 1, target_line_no |-> t + 1]
          [] OTHER ->
               [line |-> original_line, source_line_no |-> s, target_line_no |-> t]

\* HunkComplete that is satisfied by one cursor at its expected end
HunkComplete_either(h, s, t) ==
    s >= expected_source_end(h) \/ t >= expected_target_end(h)

\* the test before the break (lib.rs:461)
HunkComplete(h, s, t) ==
    s >= expected_source_end(h) /\ t >= expected_target_end(h)

(***************************************************************************)
(* Display (lib.rs:96-105, 149-153, 256-274, 492-504, 713-723).            *)
(***************************************************************************)
LineType_fmt(t) ==
    CASE t = "Added" -> <<"+">>
      [] t = "Removed" -> <<"-">>
      [] t = "Context" -> <<" ">>
      [] t = "Empty" -> <<"\n">>

Line_fmt(l) == LineType_fmt(l.line_type) \o l.value

Hunk_fmt(h) ==
    LET header == <<"@", "@", " ", "-">> \o FormatUsize(h.source_start) \o <<",">>
                  \o FormatUsize(h.source_length) \o <<" ", "+">>
                  \o FormatUsize(h.target_start) \o <<",">>
                  \o FormatUsize(h.target_length) \o <<" ", "@", "@", " ">>
                  \o h.section_header \o <<"\n">>
        content == Join([i \in 1..Len(h.lines) |-> Line_fmt(h.lines[i])], <<"\n">>)
    IN  header \o content

PatchedFile_fmt(f) ==
    LET source == <<"-", "-", "-", " ">> \o f.source_file \o <<"\n">>
        target == <<"+", "+", "+", " ">> \o f.target_file \o <<"\n">>
        hunks  == Join([i \in 1..Len(f.hunks) |-> Hunk_fmt(f.hunks[i])], <<"\n">>)
    IN  source \o target \o hunks

PatchSet_fmt(fs) ==
    Join([i \in 1..Len(fs) |-> PatchedFile_fmt(fs[i])], <<"\n">>)

(***************************************************************************)
(* The inputs of PatchSet::parse: the vector diff of lib.rs:634.           *)
(***************************************************************************)
SeqsUpTo(S, n) == UNION {[1..k -> S] : k \in 0..n}

DriverVocab == {L_source, L_target, L_hunk, L_added, L_removed}

HeaderVocab == {L_hunk, L_hunk_added, L_hunk_removed, L_hunk_nolen}

BodyVocab ==
    {L_added, L_removed, L_context, L_blank, L_text, L_marker,
     L_added_marker, L_backslash}

\* the example of the crate documentation (lib.rs:15-24)
DocExample == <<Doc1, Doc2, Doc3, Doc4, Doc5, Doc6, Doc7, Doc8, Doc9, Doc10>>

\* a hunk -1,3 +1,4 of context, removed, added, added, context
HunkExample == <<L_source, L_target, Ex_hunk, Ex_a, Ex_b, Ex_c, Ex_d, Ex_e>>

\* headers with a timestamp and /dev/null, two hunks in one file
TimestampExample ==
    <<L_source_ts, L_target_null, L_hunk_removed, L_removed, L_removed,
      L_hunk, L_marker>>

\* lines that end in the no-newline marker after each kind of first character
MarkerExample ==
    <<L_source, L_target, Ex_hunk, L_context_marker, L_removed_marker,
      L_marker, L_text_marker, L_added_marker, L_added>>

\* a hunk whose header omits the length of the target side only
TargetNoLengthExample ==
    <<L_source, L_target, L_hunk_target_nolen, L_added, L_removed, L_removed,
      L_context>>

\* two file sections with different names, source headers that no target
\* header follows, and a last section without a hunk
OrderExample ==
    <<L_source_null, L_source, L_target_null, L_hunk, L_context,
      L_source, L_source_null, L_target, L_source>>

\* a hunk whose body holds a line with the text of a hunk header
NestedExample ==
    <<L_source, L_target, Ex_hunk, L_context, L_hunk, L_context, L_added>>

\* a file whose only hunk states start 0 and length 0 on both sides
ZeroExample ==
    <<L_source, L_target, L_hunk_zero>>

\* two file sections, the second with a line its hunk cannot classify
ErrorExample ==
    <<L_source, L_target, L_hunk, L_context,
      L_source, L_target, L_hunk_nolen, L_backslash>>

Inputs ==
    SeqsUpTo(DriverVocab, MaxLines)
    \cup {<<L_source, L_target, h>> \o b :
            h \in HeaderVocab, b \in SeqsUpTo(BodyVocab, MaxBody)}
    \cup {DocExample, HunkExample, TimestampExample, MarkerExample,
          ErrorExample, TargetNoLengthExample, OrderExample, NestedExample,
          ZeroExample}

(***************************************************************************)
(* The state.  diff .. source_timestamp are the locals of PatchSet::parse  *)
(* and self.files; hunk .. hunk_line_no are the locals of parse_hunk, and  *)
(* keep the values of its last call after it returned; pc is the position  *)
(* of the call and result what it returned.                                *)
(* run tells the parse calls of a behaviour apart (1 the first, 2 that of  *)
(* a fresh PatchSet on the Display text, 3 that of the same PatchSet on    *)
(* the same text) and first keeps the files of the first call.  pf is a   *)
(* PatchedFile built by its constructors, and views the results of the     *)
(* last calls of the views of pf or of the PatchSet.                       *)
(***************************************************************************)
VARIABLES diff, line_no, files, current_file, source_file, source_timestamp,
          pc, result, hunk, source_line_no, target_line_no, hunk_line_no,
          run, first, pf, views

vars == <<diff, line_no, files, current_file, source_file, source_timestamp,
          pc, result, hunk, source_line_no, target_line_no, hunk_line_no,
          run, first, pf, views>>

hunk_vars == <<hunk, source_line_no, target_line_no, hunk_line_no>>

view_vars == <<pf, views>>

Running == [kind |-> "Running", line |-> <<>>]

Ok == [kind |-> "Ok", line |-> <<>>]

Err(kind, line) == [kind |-> kind, line |-> line]

Panic == [kind |-> "Panic", line |-> <<>>]

\* the locals of parse after its first statements (lib.rs:633-636), and those
\* of parse_hunk before its first call
ParseLocals ==
    /\ line_no = 0
    /\ current_file = None
    /\ source_file = None
    /\ source_timestamp = None
    /\ pc = "driver"
    /\ result = Running
    /\ hunk = None
    /\ source_line_no = 0
    /\ target_line_no = 0
    /\ hunk_line_no = 0

Init ==
    /\ diff \in Inputs
    /\ files = <<>>
    /\ ParseLocals
    /\ run = 1
    /\ first = <<>>
    /\ pf = None
    /\ views = None

\* the line of the current iteration of the loop of parse (lib.rs:638)
DriverLine == diff[line_no + 1]

AtDriverLine == pc = "driver" /\ line_no < Len(diff)

IsSourceHeader(line) == RE_SOURCE_FILENAME(line).matched

IsTargetHeader(line) ==
    ~IsSourceHeader(line) /\ RE_TARGET_FILENAME(line).matched

IsHunkHeader(line) ==
    /\ ~IsSourceHeader(line)
    /\ ~RE_TARGET_FILENAME(line).matched
    /\ RE_HUNK_HEADER(line).matched

\* match captures.name("timestamp") { Some(t) => Some(t), None => Some("") }
TimestampOf(captures) ==
    IF captures.timestamp = None THEN Some(<<>>) ELSE captures.timestamp

\* PushPending that assigns a list of the pending file alone to self.files
PushPending_replaces(fs, cf) == IF cf = None THEN fs ELSE <<cf[1]>>

\* self.files.push(patched_file.clone()) when a file is pending
PushPending(fs, cf) == IF cf = None THEN fs ELSE Append(fs, cf[1])

\* a source file header (lib.rs:640-654)
parse_source_header ==
    /\ AtDriverLine
    /\ IsSourceHeader(DriverLine)
    /\ source_file' = RE_SOURCE_FILENAME(DriverLine).filename
    /\ source_timestamp' = TimestampOf(RE_SOURCE_FILENAME(DriverLine))
    /\ files' = PushPending(files, current_file)
    /\ current_file' = None
    /\ line_no' = line_no + 1
    /\ UNCHANGED <<diff, pc, result, hunk_vars, run, first, view_vars>>

\* a target file header while no file is pending (lib.rs:656-678)
parse_target_header ==
    /\ AtDriverLine
    /\ IsTargetHeader(DriverLine)
    /\ current_file = None
    /\ source_file # None
    /\ current_file' = Some([source_file      |-> source_file[1],
                             target_file      |-> RE_TARGET_FILENAME(DriverLine).filename[1],
                             source_timestamp |-> source_timestamp,
                             target_timestamp |-> TimestampOf(RE_TARGET_FILENAME(DriverLine)),
                             hunks            |-> <<>>])
    /\ line_no' = line_no + 1
    /\ UNCHANGED <<diff, files, source_file, source_timestamp, pc, result,
                   hunk_vars, run, first, view_vars>>

\* parse_target_without_source that pushes the pending file and starts the
\* next one instead of returning the error
parse_target_replaces_pending ==
    /\ AtDriverLine
    /\ IsTargetHeader(DriverLine)
    /\ current_file # None
    /\ files' = PushPending(files, current_file)
    /\ current_file' = Some([source_file      |-> source_file[1],
                             target_file      |-> RE_TARGET_FILENAME(DriverLine).filename[1],
                             source_timestamp |-> source_timestamp,
                             target_timestamp |-> TimestampOf(RE_TARGET_FILENAME(DriverLine)),
                             hunks            |-> <<>>])
    /\ line_no' = line_no + 1
    /\ UNCHANGED <<diff, source_file, source_timestamp, pc, result,
                   hunk_vars, run, first, view_vars>>

\* a target file header while a file is pending (lib.rs:657-659)
parse_target_without_source ==
    /\ AtDriverLine
    /\ IsTargetHeader(DriverLine)
    /\ current_file # None
    /\ result' = Err("TargetWithoutSource", DriverLine)
    /\ pc' = "done"
    /\ UNCHANGED <<diff, line_no, files, current_file, source_file,
                   source_timestamp, hunk_vars, run, first, view_vars>>

\* a target file header before any source file header of this call:
\* source_file.clone().unwrap() on None (lib.rs:671)
parse_target_unwrap_none ==
    /\ AtDriverLine
    /\ IsTargetHeader(DriverLine)
    /\ current_file = None
    /\ source_file = None
    /\ result' = Panic
    /\ pc' = "done"
    /\ UNCHANGED <<diff, line_no, files, current_file, source_file,
                   source_timestamp, hunk_vars, run, first, view_vars>>

\* a hunk header while a file is pending: parse_hunk is entered
\* (lib.rs:680-682, 385-422)
parse_hunk_header ==
    /\ AtDriverLine
    /\ IsHunkHeader(DriverLine)
    /\ current_file # None
    /\ hunk' = Some(HunkOfHeader(DriverLine))
    /\ source_line_no' = HunkOfHeader(DriverLine).source_start
    /\ target_line_no' = HunkOfHeader(DriverLine).target_start
    /\ hunk_line_no' = line_no + 1
    /\ pc' = "hunk"
    /\ UNCHANGED <<diff, line_no, files, current_file, source_file,
                   source_timestamp, result, run, first, view_vars>>

\* parse_unexpected_hunk that skips the hunk header instead of returning the
\* error
parse_unexpected_hunk_skipped ==
    /\ AtDriverLine
    /\ IsHunkHeader(DriverLine)
    /\ current_file = None
    /\ line_no' = line_no + 1
    /\ UNCHANGED <<diff, files, current_file, source_file, source_timestamp,
                   pc, result, hunk_vars, run, first, view_vars>>

\* a hunk header while no file is pending (lib.rs:683-685)
parse_unexpected_hunk ==
    /\ AtDriverLine
    /\ IsHunkHeader(DriverLine)
    /\ current_file = None
    /\ result' = Err("UnexpectedHunk", DriverLine)
    /\ pc' = "done"
    /\ UNCHANGED <<diff, line_no, files, current_file, source_file,
                   source_timestamp, hunk_vars, run, first, view_vars>>

\* any other line: the loop goes on (lib.rs:638-687)
parse_other_line ==
    /\ AtDriverLine
    /\ ~IsSourceHeader(DriverLine)
    /\ ~RE_TARGET_FILENAME(DriverLine).matched
    /\ ~RE_HUNK_HEADER(DriverLine).matched
    /\ line_no' = line_no + 1
    /\ UNCHANGED <<diff, files, current_file, source_file, source_timestamp,
                   pc, result, hunk_vars, run, first, view_vars>>

\* parse_end that appends the pending file only when it has a hunk
parse_end_skips_empty ==
    /\ pc = "driver"
    /\ line_no = Len(diff)
    /\ files' = IF current_file # None /\ Len(current_file[1].hunks) > 0
                 THEN PushPending(files, current_file)
                 ELSE files
    /\ result' = Ok
    /\ pc' = "done"
    /\ UNCHANGED <<diff, line_no, current_file, source_file, source_timestamp,
                   hunk_vars, run, first, view_vars>>

\* the end of the input (lib.rs:688-691)
parse_end ==
    /\ pc = "driver"
    /\ line_no = Len(diff)
    /\ files' = PushPending(files, current_file)
    /\ result' = Ok
    /\ pc' = "done"
    /\ UNCHANGED <<diff, line_no, current_file, source_file, source_timestamp,
                   hunk_vars, run, first, view_vars>>

\* self.hunks.push(hunk); Ok(()) and the return to the loop of parse
\* (lib.rs:469-470, 682)
HunkReturn(h, s, t) ==
    /\ current_file' = Some([current_file[1] EXCEPT !.hunks = Append(@, h)])
    /\ hunk' = Some(h)
    /\ source_line_no' = s
    /\ target_line_no' = t
    /\ UNCHANGED hunk_line_no
    /\ line_no' = line_no + 1
    /\ pc' = "driver"
    /\ UNCHANGED <<diff, files, source_file, source_timestamp, result, run,
                   first, view_vars>>

\* the line of the current iteration of the loop of parse_hunk (lib.rs:423)
HunkLine == diff[hunk_line_no + 1]

AtHunkLine == pc = "hunk" /\ hunk_line_no < Len(diff)

\* one iteration of the loop of parse_hunk on a line that classifies
\* (lib.rs:423-464)
parse_hunk_line ==
    /\ AtHunkLine
    /\ ClassifyLine(HunkLine) # "ExpectLine"
    /\ LET n == NumberLine(ClassifyLine(HunkLine),
                           RE_HUNK_BODY_LINE(HunkLine).value,
                           hunk_line_no, source_line_no, target_line_no)
           h == Hunk_append(hunk[1], n.line)
       IN  IF HunkComplete(h, n.source_line_no, n.target_line_no)
           THEN HunkReturn(h, n.source_line_no, n.target_line_no)
           ELSE /\ hunk' = Some(h)
                /\ source_line_no' = n.source_line_no
                /\ target_line_no' = n.target_line_no
                /\ hunk_line_no' = hunk_line_no + 1
                /\ UNCHANGED <<diff, line_no, files, current_file, source_file,
                               source_timestamp, pc, result, run, first,
                               view_vars>>

\* parse_hunk_expect_line that appends the pending file before it returns
\* the error
parse_hunk_expect_line_pushes ==
    /\ AtHunkLine
    /\ ClassifyLine(HunkLine) = "ExpectLine"
    /\ files' = PushPending(files, current_file)
    /\ result' = Err("ExpectLine", HunkLine)
    /\ pc' = "done"
    /\ UNCHANGED <<diff, line_no, current_file, source_file,
                   source_timestamp, hunk_vars, run, first, view_vars>>

\* a line that does not classify: parse_hunk and parse return the error
\* (lib.rs:433, 682)
parse_hunk_expect_line ==
    /\ AtHunkLine
    /\ ClassifyLine(HunkLine) = "ExpectLine"
    /\ result' = Err("ExpectLine", HunkLine)
    /\ pc' = "done"
    /\ UNCHANGED <<diff, line_no, files, current_file, source_file,
                   source_timestamp, hunk_vars, run, first, view_vars>>

\* the loop of parse_hunk ends with the input (lib.rs:423, 469-470)
parse_hunk_exhausted ==
    /\ pc = "hunk"
    /\ hunk_line_no = Len(diff)
    /\ HunkReturn(hunk[1], source_line_no, target_line_no)

\* a second, fresh PatchSet parses the Display text of the first; results
\* of earlier calls of the views are dropped
\* (lib.rs:713-723, 596-602, 631-636)
Reparse ==
    /\ pc = "done"
    /\ result = Ok
    /\ run = 1
    /\ run' = 2
    /\ first' = files
    /\ diff' = Lines(PatchSet_fmt(files))
    /\ files' = <<>>
    /\ line_no' = 0
    /\ current_file' = None
    /\ source_file' = None
    /\ source_timestamp' = None
    /\ pc' = "driver"
    /\ result' = Running
    /\ hunk' = None
    /\ source_line_no' = 0
    /\ target_line_no' = 0
    /\ hunk_line_no' = 0
    /\ views' = None
    /\ UNCHANGED pf

\* the same PatchSet, holding the files of its first call, parses the same
\* text once more: self.files is kept, the locals start anew, results of
\* earlier calls of the views are dropped
\* (lib.rs:631-636)
ParseAgain ==
    /\ pc = "done"
    /\ result # Panic
    /\ run = 1
    /\ run' = 3
    /\ first' = files
    /\ line_no' = 0
    /\ current_file' = None
    /\ source_file' = None
    /\ source_timestamp' = None
    /\ pc' = "driver"
    /\ result' = Running
    /\ hunk' = None
    /\ source_line_no' = 0
    /\ target_line_no' = 0
    /\ hunk_line_no' = 0
    /\ views' = None
    /\ UNCHANGED <<diff, files, pf>>

\* one call of each of added_files, removed_files and modified_files on the
\* PatchSet after a call of parse returned (lib.rs:568-593)
call_file_lists ==
    /\ pc = "done"
    /\ result # Panic
    /\ views = None
    /\ views' = Some([added_files    |-> added_files(files),
                      removed_files  |-> removed_files(files),
                      modified_files |-> modified_files(files)])
    /\ UNCHANGED <<diff, line_no, files, current_file, source_file,
                   source_timestamp, pc, result, hunk_vars, run, first, pf>>

Next ==
    \/ parse_source_header
    \/ parse_target_header
    \/ parse_target_without_source
    \/ parse_target_unwrap_none
    \/ parse_hunk_header
    \/ parse_unexpected_hunk
    \/ parse_other_line
    \/ parse_end
    \/ parse_hunk_line
    \/ parse_hunk_expect_line
    \/ parse_hunk_exhausted
    \/ Reparse
    \/ ParseAgain
    \/ call_file_lists

Spec == Init /\ [][Next]_vars

(***************************************************************************)
(* Calls of the derived views on a PatchedFile built by its constructors.  *)
(***************************************************************************)
Names ==
    {N_a_x, N_b_x, N_dev_null, N_x, N_a, N_b, N_ab, N_ba, N_dev_null_x, N_ax}

\* no parse call is in progress
ParseIdle ==
    /\ diff = <<>>
    /\ files = <<>>
    /\ ParseLocals
    /\ run = 1
    /\ first = <<>>

\* the hunks of the headers -0,0 +1,1, -1,1 +0,0 and -1,1 +1,1
HeaderHunks ==
    {Hunk_new(0, 0, 1, 1, <<>>), Hunk_new(1, 1, 0, 0, <<>>), Hunk_new(1, 1, 1, 1, <<>>)}

\* PatchedFile::with_hunks: files of every pair of names without hunks, and
\* files of one pair of names with up to MaxHunks hunks
InitViews ==
    /\ ParseIdle
    /\ \E s \in Names, t \in Names, hs \in SeqsUpTo(HeaderHunks, MaxHunks) :
         /\ hs = <<>> \/ (s = N_a_x /\ t = N_b_x)
         /\ pf = Some(PatchedFile_with_hunks(s, t, hs))
    /\ views = None

\* one call of each of path, is_added_file, is_removed_file, is_modified_file
call_views ==
    /\ pf # None
    /\ views' = Some([path             |-> path(pf[1]),
                      is_added_file    |-> is_added_file(pf[1]),
                      is_removed_file  |-> is_removed_file(pf[1]),
                      is_modified_file |-> is_modified_file(pf[1])])
    /\ UNCHANGED <<diff, line_no, files, current_file, source_file,
                   source_timestamp, pc, result, hunk_vars, run, first, pf>>

\* the caller changes a public field of a hunk through hunks_mut
\* (lib.rs:487-489, 165-171); results of earlier calls are dropped
hunks_mut ==
    /\ pf # None
    /\ \E i \in 1..Len(pf[1].hunks), v \in 0..1 :
         \/ pf' = Some([pf[1] EXCEPT !.hunks[i].source_start = v])
         \/ pf' = Some([pf[1] EXCEPT !.hunks[i].source_length = v])
         \/ pf' = Some([pf[1] EXCEPT !.hunks[i].target_start = v])
         \/ pf' = Some([pf[1] EXCEPT !.hunks[i].target_length = v])
    /\ views' = None
    /\ UNCHANGED <<diff, line_no, files, current_file, source_file,
                   source_timestamp, pc, result, hunk_vars, run, first>>

NextViews == call_views \/ hunks_mut

SpecViews == InitViews /\ [][NextViews]_vars

(***************************************************************************)
(* Hunk::append called by the owner of a PatchedFile (lib.rs:178-234,      *)
(* 356-367): a file of new hunks, lines of any type appended to any of     *)
(* them in any order, and calls of added() and removed().                  *)
(***************************************************************************)
\* the number of lines of all the hunks of a file
RECURSIVE LinesIn(_)
LinesIn(hs) == IF Len(hs) = 0 THEN 0 ELSE Len(hs[1].lines) + LinesIn(Tail(hs))

\* PatchedFile::with_hunks on up to MaxHunks hunks made by Hunk::new
InitAppend ==
    /\ ParseIdle
    /\ \E n \in 0..MaxHunks :
         pf = Some(PatchedFile_with_hunks(N_a_x, N_b_x,
                       [i \in 1..n |-> Hunk_new(1, 1, 1, 1, <<>>)]))
    /\ views = None

\* hunks_mut()[i].append(Line::new("c", t)); results of earlier calls are
\* dropped
hunk_append ==
    /\ pf # None
    /\ LinesIn(pf[1].hunks) < MaxAppends
    /\ \E i \in 1..Len(pf[1].hunks), t \in LineType :
         pf' = Some([pf[1] EXCEPT
                        !.hunks[i] = Hunk_append(@, Line_new(<<"c">>, t))])
    /\ views' = None
    /\ UNCHANGED <<diff, line_no, files, current_file, source_file,
                   source_timestamp, pc, result, hunk_vars, run, first>>

\* one call of each of PatchedFile::added and PatchedFile::removed
call_counts ==
    /\ pf # None
    /\ views' = Some([added   |-> added(pf[1]),
                      removed |-> removed(pf[1])])
    /\ UNCHANGED <<diff, line_no, files, current_file, source_file,
                   source_timestamp, pc, result, hunk_vars, run, first, pf>>

NextAppend == hunk_append \/ call_counts

SpecAppend == InitAppend /\ [][NextAppend]_vars

(***************************************************************************)
(* Definitions the properties are stated with.                             *)
(***************************************************************************)
\* the hunks of a list of files
HunksOf(fs) ==
    UNION {{fs[i].hunks[j] : j \in 1..Len(fs[i].hunks)} : i \in 1..Len(fs)}

\* the hunks of the current parse call: pushed, pending, and being built
BuiltHunks == HunksOf(files) \cup HunksOf(current_file) \cup {hunk[i] : i \in 1..Len(hunk)}

\* the files the current call of parse has appended
NewFiles ==
    IF run = 3 THEN SubSeq(files, Len(first) + 1, Len(files)) ELSE files

\* the number of lines of h before position k whose type is in types
CountBefore(h, k, types) ==
    Cardinality({j \in 1..(k - 1) : h.lines[j].line_type \in types})

\* the step of parse_hunk appends one line to the hunk being built
AppendsLine ==
    /\ Len(hunk'[1].lines) = Len(hunk[1].lines) + 1
    /\ SubSeq(hunk'[1].lines, 1, Len(hunk[1].lines)) = hunk[1].lines

\* the line the step appended
AppendedLine == hunk'[1].lines[Len(hunk'[1].lines)]

\* a hunk header that states both lengths
IsFullHunkHeader(line) ==
    /\ RE_HUNK_HEADER(line).matched
    /\ RE_HUNK_HEADER(line).source_length # None
    /\ RE_HUNK_HEADER(line).target_length # None

RECURSIVE BodyEnd(_, _, _, _)
\* the position after a hunk body that starts at position i of d and holds
\* exactly s source lines and t target lines, each line starting with its
\* marker; 0 if there is no such body
BodyEnd(d, i, s, t) ==
    IF s = 0 /\ t = 0 THEN i
    ELSE IF i > Len(d) \/ Len(d[i]) = 0 THEN 0
    ELSE IF d[i][1] = "+" /\ t > 0 THEN BodyEnd(d, i + 1, s, t - 1)
    ELSE IF d[i][1] = "-" /\ s > 0 THEN BodyEnd(d, i + 1, s - 1, t)
    ELSE IF d[i][1] = " " /\ s > 0 /\ t > 0 THEN BodyEnd(d, i + 1, s - 1, t - 1)
    ELSE 0

RECURSIVE HunksEnd(_, _)
\* the position after the hunks that start at position i of d; 0 if a hunk
\* body is not as its header declares
HunksEnd(d, i) ==
    IF i <= Len(d) /\ IsFullHunkHeader(d[i])
    THEN LET h == HunkOfHeader(d[i])
             e == BodyEnd(d, i + 1, h.source_length, h.target_length)
         IN  IF e = 0 THEN 0 ELSE HunksEnd(d, e)
    ELSE i

RECURSIVE HeaderPairs(_, _)
\* the number of file sections of d from position i on when d is, from
\* there, a sequence of file sections; -1 otherwise
HeaderPairs(d, i) ==
    IF i > Len(d) THEN 0
    ELSE IF /\ i + 1 <= Len(d)
            /\ RE_SOURCE_FILENAME(d[i]).matched
            /\ RE_TARGET_FILENAME(d[i + 1]).matched
    THEN LET e == HunksEnd(d, i + 2)
             r == IF e = 0 THEN -1 ELSE HeaderPairs(d, e)
         IN  IF r = -1 THEN -1 ELSE 1 + r
    ELSE -1

WellFormed(d) == HeaderPairs(d, 1) >= 0

TypedErrors == {"TargetWithoutSource", "UnexpectedHunk", "ExpectLine"}

(***************************************************************************)
(* The properties.                                                         *)
(***************************************************************************)
\* C1: a parse of a well-formed unified diff returns Ok and appends as many
\* files as the text has "--- " / "+++ " header pairs.
C1_WellFormedParses ==
    (run = 1 /\ pc = "done" /\ WellFormed(diff)) =>
        (result = Ok /\ Len(files) = HeaderPairs(diff, 1))

\* C2: the numbers of the lines of a hunk are those of two cursors that
\* start at source_start and target_start: an Added line has the target
\* cursor and no source number, a Removed line the source cursor and no
\* target number, a Context line both, an Empty line neither; Added lines
\* advance the target cursor only, Removed lines the source cursor only,
\* Context lines both and Empty lines none.  The hunk -1,3 +1,4 of context,
\* removed, added, added, context is numbered (1,1) (2,-) (-,2) (-,3) (3,4)
\* with added() = 2 and removed() = 1.
C2_LineNumbers ==
    /\ \A h \in BuiltHunks : \A k \in 1..Len(h.lines) :
         LET l == h.lines[k]
             s == h.source_start + CountBefore(h, k, {"Removed", "Context"})
             t == h.target_start + CountBefore(h, k, {"Added", "Context"})
         IN  /\ l.line_type = "Added" =>
                  (l.target_line_no = Some(t) /\ l.source_line_no = None)
             /\ l.line_type = "Removed" =>
                  (l.source_line_no = Some(s) /\ l.target_line_no = None)
             /\ l.line_type = "Context" =>
                  (l.source_line_no = Some(s) /\ l.target_line_no = Some(t))
             /\ l.line_type = "Empty" =>
                  (l.source_line_no = None /\ l.target_line_no = None)
    /\ hunk # None =>
         LET h == hunk[1]
             n == Len(h.lines) + 1
         IN  /\ source_line_no = h.source_start + CountBefore(h, n, {"Removed", "Context"})
             /\ target_line_no = h.target_start + CountBefore(h, n, {"Added", "Context"})
    /\ (diff = HunkExample /\ pc = "done") =>
         /\ Len(NewFiles) = 1
         /\ Len(NewFiles[1].hunks) = 1
         /\ [k \in 1..5 |-> <<NewFiles[1].hunks[1].lines[k].source_line_no,
                              NewFiles[1].hunks[1].lines[k].target_line_no>>]
              = << <<Some(1), Some(1)>>, <<Some(2), None>>, <<None, Some(2)>>,
                   <<None, Some(3)>>, <<Some(3), Some(4)>> >>
         /\ NewFiles[1].hunks[1].added = 2
         /\ NewFiles[1].hunks[1].removed = 1

\* C2 happens: a hunk with an Empty line that is followed by a numbered line
C2_Witness ==
    \E h \in BuiltHunks : \E k \in 1..Len(h.lines) :
        /\ k > 1
        /\ h.lines[k - 1].line_type = "Empty"
        /\ h.lines[k].line_type \in {"Added", "Removed", "Context"}
        /\ \E j \in 1..(k - 1) : h.lines[j].line_type # "Empty"

\* C3: the Display text of a successfully parsed PatchSet parses, in a fresh
\* PatchSet, to as many files with the same added() and removed() counts.
C3_RoundTrip ==
    (run = 2 /\ pc = "done") =>
        /\ result = Ok
        /\ Len(files) = Len(first)
        /\ \A i \in 1..Len(first) :
             /\ added(files[i]) = added(first[i])
             /\ removed(files[i]) = removed(first[i])

\* C4: a target header processed by the driver while a file is pending makes
\* parse return TargetWithoutSource with that line; no file is created or
\* appended.
C4_TargetWithoutSource ==
    [][(AtDriverLine /\ IsTargetHeader(DriverLine) /\ current_file # None) =>
          /\ result' = Err("TargetWithoutSource", DriverLine)
          /\ pc' = "done"
          /\ files' = files
          /\ current_file' = current_file]_vars

\* C4 happens: parse returned TargetWithoutSource
C4_Witness ==
    /\ pc = "done"
    /\ result.kind = "TargetWithoutSource"
    /\ current_file # None
    /\ result.line = DriverLine

\* C5: a hunk header processed by the driver while no file is pending makes
\* parse return UnexpectedHunk with that line; while a file is pending a
\* hunk header does not give UnexpectedHunk.
C5_UnexpectedHunk ==
    [][/\ (AtDriverLine /\ IsHunkHeader(DriverLine) /\ current_file = None) =>
            /\ result' = Err("UnexpectedHunk", DriverLine)
            /\ pc' = "done"
            /\ files' = files
       /\ (AtDriverLine /\ IsHunkHeader(DriverLine) /\ current_file # None) =>
            /\ result' = Running
            /\ pc' = "hunk"]_vars

\* C5 happens: parse returned UnexpectedHunk for a hunk header that follows
\* a finalized file
C5_Witness ==
    /\ pc = "done"
    /\ result.kind = "UnexpectedHunk"
    /\ current_file = None
    /\ Len(files) > 0
    /\ result.line = DriverLine

\* C6: parse ends with Ok or one of the three typed errors, never with a
\* panic.
C6_NoPanic ==
    pc = "done" => result.kind \in {"Ok"} \cup TypedErrors

\* C7: in the loop of parse_hunk a non-empty line that starts with none of
\* "+", "-", " " and does not end in the no-newline marker gives ExpectLine
\* with that line and is not appended.
C7_OtherCharacterFails ==
    [][(/\ AtHunkLine
        /\ Len(HunkLine) > 0
        /\ HunkLine[1] \notin {"+", "-", " "}
        /\ ~EndsWith(HunkLine, NoNewlineMarker)) =>
          /\ result' = Err("ExpectLine", HunkLine)
          /\ pc' = "done"
          /\ hunk' = hunk]_vars

\* C8 as stated: every line the hunk builder consumes that ends in the
\* no-newline marker is Empty, whatever its first character, and advances
\* no cursor and no counter.
C8_MarkerAlwaysEmpty ==
    [][(AtHunkLine /\ EndsWith(HunkLine, NoNewlineMarker)) =>
          /\ AppendsLine
          /\ AppendedLine.line_type = "Empty"
          /\ source_line_no' = source_line_no
          /\ target_line_no' = target_line_no
          /\ hunk'[1].added = hunk[1].added
          /\ hunk'[1].removed = hunk[1].removed]_vars

\* C8 amended: a consumed line is Empty exactly when it starts with "\" and
\* ends in the no-newline marker; it then has no line number and advances no
\* cursor and no counter.  A line that ends in the marker and starts with
\* "+", "-" or " " is Added, Removed or Context, and with any other first
\* character but "\" it is Context.
C8_BackslashMarkerEmpty ==
    [][AtHunkLine =>
          /\ (HasAt(HunkLine, 1, <<"\\">>) /\ EndsWith(HunkLine, NoNewlineMarker)) =>
               /\ AppendsLine
               /\ AppendedLine.line_type = "Empty"
               /\ AppendedLine.source_line_no = None
               /\ AppendedLine.target_line_no = None
               /\ source_line_no' = source_line_no
               /\ target_line_no' = target_line_no
               /\ hunk'[1].added = hunk[1].added
               /\ hunk'[1].removed = hunk[1].removed
          /\ (~HasAt(HunkLine, 1, <<"\\">>) /\ EndsWith(HunkLine, NoNewlineMarker)) =>
               /\ AppendsLine
               /\ AppendedLine.line_type =
                    (IF HunkLine[1] = "+" THEN "Added"
                     ELSE IF HunkLine[1] = "-" THEN "Removed"
                     ELSE "Context")
          /\ (AppendsLine /\ AppendedLine.line_type = "Empty") =>
               (HasAt(HunkLine, 1, <<"\\">>) /\ EndsWith(HunkLine, NoNewlineMarker))]_vars

\* C8 happens: the hunk builder has consumed "+\ No newline at end of file"
\* as an Added line and "\ No newline at end of file" as an Empty line
C8_Witness ==
    /\ hunk # None
    /\ \E k \in 1..Len(hunk[1].lines) :
         /\ hunk[1].lines[k].line_type = "Added"
         /\ diff[hunk[1].lines[k].diff_line_no] = L_added_marker
    /\ \E k \in 1..Len(hunk[1].lines) :
         /\ hunk[1].lines[k].line_type = "Empty"
         /\ diff[hunk[1].lines[k].diff_line_no] = L_marker

\* C9: is_added_file() is true iff the file has exactly one hunk whose
\* source_start and source_length are 0, is_removed_file() iff it has exactly
\* one hunk whose target_start and target_length are 0, is_modified_file()
\* iff neither is; a file with no hunk or with several is modified.
C9_Classification ==
    views # None =>
        LET f == pf[1]
            n == Len(f.hunks)
            one(h) == <<h.source_start, h.source_length>>
            two(h) == <<h.target_start, h.target_length>>
        IN  /\ views[1].is_added_file <=> (n = 1 /\ one(f.hunks[n]) = <<0, 0>>)
            /\ views[1].is_removed_file <=> (n = 1 /\ two(f.hunks[n]) = <<0, 0>>)
            /\ views[1].is_modified_file <=>
                 (~views[1].is_added_file /\ ~views[1].is_removed_file)
            /\ n # 1 => views[1].is_modified_file

\* C9 happens: a file of two hunks, the first one -0,0, was classified
C9_Witness ==
    /\ views # None
    /\ Len(pf[1].hunks) = 2
    /\ pf[1].hunks[1].source_start = 0
    /\ pf[1].hunks[1].source_length = 0
    /\ views[1].is_modified_file

\* C10: path() is the source without "a/" when the source starts with "a/"
\* and the target starts with "b/" or is "/dev/null"; else the target without
\* "b/" when the target starts with "b/" and the source is "/dev/null"; else
\* the source as it is.
C10_Path ==
    views # None =>
        LET src == pf[1].source_file
            tgt == pf[1].target_file
            r1  == HasAt(src, 1, <<"a", "/">>) /\ HasAt(tgt, 1, <<"b", "/">>)
            r2  == HasAt(src, 1, <<"a", "/">>) /\ tgt = N_dev_null
            r3  == HasAt(tgt, 1, <<"b", "/">>) /\ src = N_dev_null
        IN  /\ r1 => <<"a", "/">> \o views[1].path = src
            /\ (~r1 /\ r2) => <<"a", "/">> \o views[1].path = src
            /\ (~r1 /\ ~r2 /\ r3) => <<"b", "/">> \o views[1].path = tgt
            /\ (~r1 /\ ~r2 /\ ~r3) => views[1].path = src
            /\ (src = N_a_x /\ tgt \in {N_b_x, N_dev_null}) => views[1].path = N_x
            /\ (src = N_dev_null /\ tgt = N_b_x) => views[1].path = N_x
            /\ (src = N_a_x /\ tgt = N_x) => views[1].path = N_a_x

\* C10 happens: path() was called on source "/dev/null", target "b/x"
C10_Witness ==
    /\ views # None
    /\ pf[1].source_file = N_dev_null
    /\ pf[1].target_file = N_b_x
    /\ views[1].path = N_x

(***************************************************************************)
(* Properties of a call of parse on a PatchSet that holds files already,   *)
(* and of the calls that return an error.                                  *)
(***************************************************************************)
IsPrefix(s, t) == Len(s) <= Len(t) /\ SubSeq(t, 1, Len(s)) = s

\* C11: a call of parse on a PatchSet that holds the files F keeps F as an
\* unchanged prefix of the file list at every moment of the call and after it
\* returned, Ok or Err; when the call returns Ok the list is F followed by
\* the files that the same text gives in an empty PatchSet.
C11_Cumulative ==
    run = 3 =>
        /\ IsPrefix(first, files)
        /\ (pc = "done" /\ result = Ok) => files = first \o first

\* C11 happens: a PatchSet that held a file parsed a text with success
C11_Witness ==
    /\ run = 3
    /\ pc = "done"
    /\ result = Ok
    /\ Len(first) >= 1
    /\ Len(files) = 2 * Len(first)

\* C12: when parse returns TargetWithoutSource, UnexpectedHunk or ExpectLine,
\* the returning step leaves the file list as it was (the files pushed before
\* the failing line stay as built, the pending file is not appended) and the
\* call is over: no step of this call follows it (the next step that changes
\* the PatchSet belongs to another call).  Within a call the file
\* list changes only by files appended to it.
C12_ErrorKeepsFiles ==
    [][/\ (result = Running /\ result'.kind \in TypedErrors) =>
            /\ files' = files
            /\ current_file' = current_file
            /\ line_no' = line_no
            /\ pc' = "done"
       /\ (pc = "done" /\ result.kind \in TypedErrors) =>
            \/ run' # run
            \/ UNCHANGED <<diff, line_no, files, current_file, source_file,
                           source_timestamp, pc, result, hunk_vars>>
       /\ run' = run => IsPrefix(files, files')]_vars

\* C12 happens: ExpectLine was returned with one file pushed and one pending
C12_Witness ==
    /\ run = 1
    /\ pc = "done"
    /\ result.kind = "ExpectLine"
    /\ Len(files) = 1
    /\ current_file # None
    /\ line_no < Len(diff)

(***************************************************************************)
(* Properties of the lines and hunks that parse_hunk builds.               *)
(***************************************************************************)
\* the lines of the hunks of the files of a PatchSet
LinesOf(fs) == UNION {{h.lines[k] : k \in 1..Len(h.lines)} : h \in HunksOf(fs)}

\* C13 as stated: after a successful parse no line has both numbers absent,
\* the source number is absent only on an Added line, the target number only
\* on a Removed line, and a Context line has both.
C13_LineInvariant ==
    (pc = "done" /\ result = Ok) =>
        \A l \in LinesOf(files) :
            /\ ~(l.source_line_no = None /\ l.target_line_no = None)
            /\ l.source_line_no = None => l.line_type = "Added"
            /\ l.target_line_no = None => l.line_type = "Removed"
            /\ l.line_type = "Context" =>
                   (l.source_line_no # None /\ l.target_line_no # None)

\* C13: after a successful parse an Added line has a target number and no
\* source number, a Removed line a source number and no target number, a
\* Context line has both, and an Empty line (the no-newline marker) has
\* neither; so both numbers are absent on the Empty lines and on no other.
C13_LineNumbersPresent ==
    (pc = "done" /\ result = Ok) =>
        \A l \in LinesOf(files) :
            /\ l.line_type \in LineType
            /\ (l.source_line_no = None) <=> (l.line_type \in {"Added", "Empty"})
            /\ (l.target_line_no = None) <=> (l.line_type \in {"Removed", "Empty"})
            /\ (l.source_line_no = None /\ l.target_line_no = None)
                   <=> (l.line_type = "Empty")

\* C13 happens: a successful parse gave a hunk with lines of the four types
C13_Witness ==
    /\ pc = "done"
    /\ result = Ok
    /\ \E h \in HunksOf(files) :
         \A t \in LineType : \E k \in 1..Len(h.lines) : h.lines[k].line_type = t

\* the text of the source side of a hunk header, between "@@ -" and the next
\* space, and that of the target side, after the " +" that follows
SourceRange(header) == SubSeq(header, 5, 4 + RunLenNot(header, 5, {" "}))

TargetRange(header) ==
    LET p == 5 + RunLenNot(header, 5, {" "}) + 2
    IN  SubSeq(header, p, p - 1 + RunLenNot(header, p, {" "}))

OmitsLength(range) == \A i \in 1..Len(range) : range[i] # ","

\* the header line of the call of parse_hunk that is under way
HunkHeaderLine == diff[line_no + 1]

\* C14: a hunk header that omits ",<length>" on a side gives a Hunk whose
\* length on that side is 0, so the expected end of that side is its start;
\* the cursor of that side is at or past the expected end after the first
\* body line, and a hunk whose header omits both lengths is returned with
\* that one line.
C14_OmittedLengthIsZero ==
    [][/\ (AtDriverLine /\ IsHunkHeader(DriverLine) /\ current_file # None) =>
            /\ OmitsLength(SourceRange(DriverLine)) =>
                   /\ hunk'[1].source_length = 0
                   /\ expected_source_end(hunk'[1]) = source_line_no'
                   /\ source_line_no' = ParseUsize(SourceRange(DriverLine))
            /\ OmitsLength(TargetRange(DriverLine)) =>
                   /\ hunk'[1].target_length = 0
                   /\ expected_target_end(hunk'[1]) = target_line_no'
                   /\ target_line_no' = ParseUsize(TargetRange(DriverLine))
       /\ (pc = "hunk" /\ AppendsLine /\ Len(hunk[1].lines) = 0) =>
            /\ OmitsLength(SourceRange(HunkHeaderLine)) =>
                   source_line_no' >= expected_source_end(hunk'[1])
            /\ OmitsLength(TargetRange(HunkHeaderLine)) =>
                   target_line_no' >= expected_target_end(hunk'[1])
            /\ (/\ OmitsLength(SourceRange(HunkHeaderLine))
                /\ OmitsLength(TargetRange(HunkHeaderLine))) => pc' = "driver"]_vars

\* C14 happens: the hunk of "@@ -3 +3 @@" was returned after its first body
\* line, with lines of the input left
C14_Witness ==
    /\ pc = "driver"
    /\ hunk # None
    /\ line_no >= 1
    /\ diff[line_no] = L_hunk_nolen
    /\ hunk[1].source_start = 3
    /\ hunk[1].source_length = 0
    /\ hunk[1].target_length = 0
    /\ Len(hunk[1].lines) = 1
    /\ Len(diff) > line_no + 1

\* the type a body line has by its first character, when it classifies
RawType(line) ==
    IF Len(line) = 0 THEN "Context"
    ELSE CASE line[1] = "+" -> "Added"
           [] line[1] = "-" -> "Removed"
           [] line[1] = "\\" -> "Empty"
           [] OTHER -> "Context"

\* the text of a body line after its marker character
RawValue(line) ==
    IF Len(line) > 0 /\ line[1] \in {"+", "-", " ", "\\", "\n"} THEN Tail(line)
    ELSE line

\* the number of the j lines after the line at position hdr whose type is in
\* types
RawCount(hdr, j, types) ==
    Cardinality({i \in 1..j : RawType(diff[hdr + i]) \in types})

\* after the j lines that follow the header at position hdr both cursors of
\* the hunk h are at or past their expected ends
StopsAfter(h, hdr, j) ==
    /\ h.source_start + RawCount(hdr, j, {"Removed", "Context"})
           >= h.source_start + h.source_length
    /\ h.target_start + RawCount(hdr, j, {"Added", "Context"})
           >= h.target_start + h.target_length

\* C15: when parse_hunk returns a hunk, the lines of the hunk are the first k
\* lines of the input after its header line, in input order, k being the
\* smallest k >= 1 such that both cursors are at or past their expected ends
\* after those k lines; when there is no such k the hunk holds all the lines
\* that remain.  (So a line is appended before the test is made, and the
\* line after the k-th is not appended.)
C15_EarlyStop ==
    [][(pc = "hunk" /\ pc' = "driver") =>
          LET h   == hunk'[1]
              hdr == line_no + 1
              n   == Len(h.lines)
          IN  /\ n <= Len(diff) - hdr
              /\ \A j \in 1..n :
                    /\ h.lines[j].diff_line_no = hdr + j
                    /\ h.lines[j].line_type = RawType(diff[hdr + j])
                    /\ h.lines[j].value = RawValue(diff[hdr + j])
              /\ \A j \in 1..(n - 1) : ~StopsAfter(h, hdr, j)
              /\ \/ n >= 1 /\ StopsAfter(h, hdr, n)
                 \/ n = Len(diff) - hdr
              /\ current_file'[1].hunks = Append(current_file[1].hunks, h)]_vars

\* C15 happens: a hunk was returned with two lines, the second of which
\* brought the cursors to their expected ends, and an added line that follows
\* was left out
C15_Witness ==
    /\ pc = "driver"
    /\ hunk # None
    /\ line_no >= 1
    /\ IsHunkHeader(diff[line_no])
    /\ Len(hunk[1].lines) = 2
    /\ hunk[1].lines[1].diff_line_no = line_no + 1
    /\ source_line_no = expected_source_end(hunk[1])
    /\ target_line_no = expected_target_end(hunk[1])
    /\ Len(diff) >= line_no + 3
    /\ diff[line_no + 3] = L_added

\* C16: no hunk of a parse holds more lines than its header states: its
\* Removed and Context lines are at most source_length and its Added and
\* Context lines at most target_length (so none for a length of 0 on both
\* sides).
C16_WithinDeclaredLengths ==
    \A h \in BuiltHunks :
        /\ CountBefore(h, Len(h.lines) + 1, {"Removed", "Context"}) <= h.source_length
        /\ CountBefore(h, Len(h.lines) + 1, {"Added", "Context"}) <= h.target_length

\* C17: a line read by parse_hunk after both cursors are at or past their
\* expected ends (for lengths 0 on both sides, the line after the header) is
\* not classified: it is not appended to the hunk and does not make parse
\* return ExpectLine; ExpectLine is returned only while a cursor is short of
\* its expected end.
C17_TrailingLinesTolerated ==
    [][(AtHunkLine /\ HunkComplete(hunk[1], source_line_no, target_line_no)) =>
          /\ hunk'[1].lines = hunk[1].lines
          /\ result'.kind # "ExpectLine"]_vars

(***************************************************************************)
(* Properties of the loop of parse.                                        *)
(***************************************************************************)
RECURSIVE TargetHeaderLines(_, _)
\* the positions from i on, in order, of the lines of d that the loop of
\* parse takes for target headers
TargetHeaderLines(d, i) ==
    IF i > Len(d) THEN <<>>
    ELSE (IF IsTargetHeader(d[i]) THEN <<i>> ELSE <<>>)
             \o TargetHeaderLines(d, i + 1)

\* the position of the last line before position i that the loop takes for
\* a source header
LastSourceHeaderBefore(d, i) ==
    CHOOSE j \in 1..(i - 1) :
        /\ IsSourceHeader(d[j])
        /\ \A k \in (j + 1)..(i - 1) : ~IsSourceHeader(d[k])

\* the filename of a header line: the text after the four characters of the
\* marker, up to a tab
HeaderName(line) == SubSeq(line, 5, 4 + RunLenNot(line, 5, {"\t", "\n"}))

\* C18: after a successful parse the appended files are, in order, one for
\* each line the loop took for a target header, with the filename of that
\* line as target_file and the filename of the last source header line
\* before it as source_file (so a source header that no target header
\* follows gives no file).  A pending file is appended when the next source
\* header line is processed or at the end of the input, also when it has no
\* hunk, and the file list changes at no other step of the call.
C18_DriverOrdering ==
    /\ [](pc = "done" /\ result = Ok =>
            LET T == TargetHeaderLines(diff, 1)
            IN  /\ Len(NewFiles) = Len(T)
                /\ \A i \in 1..Len(T) :
                      /\ NewFiles[i].target_file = HeaderName(diff[T[i]])
                      /\ NewFiles[i].source_file =
                             HeaderName(diff[LastSourceHeaderBefore(diff, T[i])]))
    /\ [][run' = run =>
            LET Pushing == \/ AtDriverLine /\ IsSourceHeader(DriverLine)
                           \/ pc = "driver" /\ line_no = Len(diff)
            IN  IF Pushing /\ current_file # None
                THEN files' = Append(files, current_file[1])
                ELSE files' = files]_vars

\* C18 happens: a successful parse of two header pairs with different names,
\* each after two source headers, and of a last source header gave two
\* files, the second pushed at the end of the input without a hunk
C18_Witness ==
    /\ run = 1
    /\ pc = "done"
    /\ result = Ok
    /\ Len(files) = 2
    /\ files[1].source_file = N_a_x
    /\ files[1].target_file = N_dev_null
    /\ files[1].hunks # <<>>
    /\ files[2].source_file = N_dev_null
    /\ files[2].target_file = N_b_x
    /\ files[2].hunks = <<>>
    /\ TargetHeaderLines(diff, 1) = <<3, 8>>
    /\ IsSourceHeader(diff[Len(diff)])

\* the hunks of the current call of parse: pushed, pending, and being built
CallHunks ==
    HunksOf(NewFiles) \cup HunksOf(current_file) \cup {hunk[i] : i \in 1..Len(hunk)}

\* the line at position p of the input was appended to a hunk of this call
ConsumedAsBody(p) ==
    \E h \in CallHunks : \E k \in 1..Len(h.lines) : h.lines[k].diff_line_no = p

\* the positions in the input of the lines of the j-th hunk of the file f
BodyPositions(f, j) ==
    {f.hunks[j].lines[k].diff_line_no : k \in 1..Len(f.hunks[j].lines)}

\* C19: a line that parse_hunk appended to a hunk is no header for the loop
\* of parse: when the loop comes to it, it neither pushes nor starts a file,
\* returns no error and enters no hunk.  No line of the input is a line of
\* two hunks.
C19_SingleRole ==
    /\ [][(AtDriverLine /\ ConsumedAsBody(line_no + 1)) =>
             /\ files' = files
             /\ current_file' = current_file
             /\ source_file' = source_file
             /\ result' = Running
             /\ pc' = "driver"]_vars
    /\ [](\A f \in {NewFiles[i] : i \in 1..Len(NewFiles)}
                   \cup {current_file[i] : i \in 1..Len(current_file)} :
             \A j1, j2 \in 1..Len(f.hunks) :
                 j1 # j2 => BodyPositions(f, j1) \cap BodyPositions(f, j2) = {})

(***************************************************************************)
(* Properties of the counters of hunks and files.                          *)
(***************************************************************************)
\* the number of lines of type t in the hunk h
LinesOfType(h, t) ==
    Cardinality({k \in 1..Len(h.lines) : h.lines[k].line_type = t})

\* the number of lines of type t in all the hunks of the file f
FileLinesOfType(f, t) ==
    Cardinality(UNION {{<<j, k>> : k \in {k \in 1..Len(f.hunks[j].lines) :
                                              f.hunks[j].lines[k].line_type = t}} :
                       j \in 1..Len(f.hunks)})

\* C20: for every hunk made by Hunk::new and Hunk::append calls, and every
\* hunk built by parse, added is the number of its Added lines and removed
\* the number of its Removed lines (Context and Empty lines count for
\* neither); PatchedFile::added() and removed() are the sums of these over
\* the hunks of the file.
C20_Counters ==
    /\ \A h \in BuiltHunks \cup HunksOf(pf) :
          /\ h.added = LinesOfType(h, "Added")
          /\ h.removed = LinesOfType(h, "Removed")
          /\ h.added + h.removed + LinesOfType(h, "Context")
                 + LinesOfType(h, "Empty") = Len(h.lines)
    /\ \A f \in {files[i] : i \in 1..Len(files)}
                   \cup {current_file[i] : i \in 1..Len(current_file)}
                   \cup {pf[i] : i \in 1..Len(pf)} :
          /\ added(f) = FileLinesOfType(f, "Added")
          /\ removed(f) = FileLinesOfType(f, "Removed")
    /\ (pf # None /\ views # None) =>
          /\ views[1].added = FileLinesOfType(pf[1], "Added")
          /\ views[1].removed = FileLinesOfType(pf[1], "Removed")

\* C20 happens: added() and removed() were called on a file of two hunks
\* after lines of three types were appended, an Added line to the second
\* hunk
C20_Witness ==
    /\ pf # None
    /\ views # None
    /\ Len(pf[1].hunks) = 2
    /\ LinesOfType(pf[1].hunks[2], "Added") = 1
    /\ LinesOfType(pf[1].hunks[1], "Removed") = 1
    /\ LinesOfType(pf[1].hunks[1], "Empty") = 1
    /\ views[1].added = 1
    /\ views[1].removed = 1

(***************************************************************************)
(* Properties of the classification of the files of a PatchSet.            *)
(***************************************************************************)
\* x is an element of the sequence s
InSeq(x, s) == \E k \in 1..Len(s) : s[k] = x

\* exactly one of three
ExactlyOne(a, b, c) ==
    \/ a /\ ~b /\ ~c
    \/ ~a /\ b /\ ~c
    \/ ~a /\ ~b /\ c

\* the only hunk of f states start 0 and length 0 on both sides
OnlyHunkAllZero(f) ==
    /\ Len(f.hunks) = 1
    /\ f.hunks[1].source_start = 0
    /\ f.hunks[1].source_length = 0
    /\ f.hunks[1].target_start = 0
    /\ f.hunks[1].target_length = 0

\* C21 as stated: for every file of a PatchSet after a parse exactly one of
\* is_added_file, is_removed_file and is_modified_file is true, and the file
\* is in exactly one of added_files(), removed_files() and modified_files().
C21_Partition ==
    (pc = "done" /\ views # None) =>
        \A i \in 1..Len(files) :
            /\ ExactlyOne(is_added_file(files[i]), is_removed_file(files[i]),
                          is_modified_file(files[i]))
            /\ ExactlyOne(InSeq(files[i], views[1].added_files),
                          InSeq(files[i], views[1].removed_files),
                          InSeq(files[i], views[1].modified_files))

\* C21: every file of a PatchSet after a parse is in at least one of
\* added_files(), removed_files() and modified_files(); a file in
\* modified_files() is in neither of the two others; a file is in both
\* added_files() and removed_files() exactly when its only hunk states start
\* 0 and length 0 on both sides, and every other file is in exactly one of
\* the three lists.  The three lists hold no other files, and the same
\* holds of the three predicates.
C21_ModifiedIffNeither ==
    (pc = "done" /\ views # None) =>
        /\ \A i \in 1..Len(files) :
              LET f == files[i]
                  a == InSeq(f, views[1].added_files)
                  r == InSeq(f, views[1].removed_files)
                  m == InSeq(f, views[1].modified_files)
              IN  /\ a \/ r \/ m
                  /\ m => (~a /\ ~r)
                  /\ (a /\ r) <=> OnlyHunkAllZero(f)
                  /\ ~OnlyHunkAllZero(f) => ExactlyOne(a, r, m)
                  /\ a <=> is_added_file(f)
                  /\ r <=> is_removed_file(f)
                  /\ m <=> is_modified_file(f)
        /\ \A k \in 1..Len(views[1].added_files) :
              InSeq(views[1].added_files[k], files)
        /\ \A k \in 1..Len(views[1].removed_files) :
              InSeq(views[1].removed_files[k], files)
        /\ \A k \in 1..Len(views[1].modified_files) :
              InSeq(views[1].modified_files[k], files)
        /\ Len(views[1].added_files) + Len(views[1].removed_files)
               + Len(views[1].modified_files)
             = Len(files)
                 + Cardinality({i \in 1..Len(files) : OnlyHunkAllZero(files[i])})

\* C21 happens: the three lists were taken of a PatchSet whose one file,
\* parsed from a hunk header -0,0 +0,0, is in added_files() and in
\* removed_files()
C21_Witness ==
    /\ run = 1
    /\ pc = "done"
    /\ result = Ok
    /\ views # None
    /\ Len(files) = 1
    /\ diff[Len(diff)] = L_hunk_zero
    /\ views[1].added_files = files
    /\ views[1].removed_files = files
    /\ views[1].modified_files = <<>>

(***************************************************************************)
(* Properties of an input that ends inside a hunk.                         *)
(***************************************************************************)
\* the lines of the hunk h do not bring both cursors to their expected ends
Incomplete(h) ==
    \/ CountBefore(h, Len(h.lines) + 1, {"Removed", "Context"}) < h.source_length
    \/ CountBefore(h, Len(h.lines) + 1, {"Added", "Context"}) < h.target_length

\* C22: when the input ends while a cursor of a hunk is short of its expected
\* end (also when the hunk header is the last line), parse_hunk returns no
\* error and the hunk is appended to the pending file with the lines it has
\* so far; the pending file is then pushed and parse returns Ok, so a call
\* that appended such a hunk ends with Ok and the hunk in the files of the
\* PatchSet.
C22_PrematureEnd ==
    /\ [][(pc = "hunk" /\ hunk_line_no = Len(diff)) =>
             /\ result' = Running
             /\ pc' = "driver"
             /\ current_file'[1].hunks = Append(current_file[1].hunks, hunk[1])]_vars
    /\ [](pc = "done" =>
             \A h \in HunksOf(NewFiles) \cup HunksOf(current_file) :
                 Incomplete(h) => (result = Ok /\ h \in HunksOf(NewFiles)))

====
